---- MODULE Spec2Model ----
(***************************************************************************)
(* Model of scrapy/cmdline.py (the command-line dispatcher) and of the     *)
(* crawl engine the dispatcher hands off to.                               *)
(*                                                                         *)
(* Strings that the code inspects character by character (the elements of  *)
(* argv, command names) are sequences of one-character strings, so that    *)
(* str.startswith('-') and the truth value of '' are computed, not assumed.*)
(***************************************************************************)
EXTENDS Integers, Sequences, FiniteSets, TLC

(***************************************************************************)
(* Bounds of the model.                                                    *)
(***************************************************************************)
\* most elements of argv after argv[0]
MaxArgs == 2
\* most requests created in one run of the engine (seeds and discovered requests)
MaxRequests == 3

(***************************************************************************)
(* Values.                                                                 *)
(***************************************************************************)
\* Python's None (no element of argv is this value: it is not a sequence of characters)
None == <<"None">>

ProgName == <<"s", "c", "r", "a", "p", "y">>
crawl == <<"c", "r", "a", "w", "l">>
version == <<"v", "e", "r", "s", "i", "o", "n">>
OptProfile == <<"-", "-", "p", "r", "o", "f", "i", "l", "e", "=", "f">>
OptHelp == <<"-", "h">>
OptBad == <<"-", "-", "b", "a", "d">>
EmptyStr == <<>>

\* the command names a module or an entry point may define
CmdNames == {crawl, version}

\* the elements argv[1:] is drawn from
Tokens == {crawl, version, OptProfile, OptHelp, OptBad, EmptyStr}

\* the values a command's run may leave in cmd.exitcode
ExitCodes == {0, 1}

\* where a command class comes from
Origins == {"builtin", "entry_point", "commands_module"}

\* a command class: the module (or entry point) that defines it and its requires_project
CommandClasses == [origin : Origins, requires_project : BOOLEAN]

\* --- the engine's values
Fingerprints == {"F1", "F2", "F3"}
Keys == {"a", "b", "c"}
\* one priority (the default 0): within it the queue is first in, first out
Priorities == {0}
Ids == 1..MaxRequests

\* Request.partition_key, derived from the target
partition_key(fp) == CASE fp = "F1" -> "a" [] fp = "F2" -> "b" [] fp = "F3" -> "c"

\* configuration
max_global_concurrency == 2
max_per_key_concurrency == 1
max_retries == 1
\* per_key_delay is 0: no time has to pass between two dispatches to a key
per_key_delay == 0

\* a request as the command layer or the callback creates it
NewRequests == [fp : Fingerprints, dont_filter : BOOLEAN, priority : Priorities]

\* all finite sequences over S of length at most n
RECURSIVE SeqsUpTo(_, _)
SeqsUpTo(S, n) ==
  IF n = 0 THEN {<<>>}
  ELSE LET shorter == SeqsUpTo(S, n - 1)
       IN shorter \cup {Append(s, x) : s \in {t \in shorter : Len(t) = n - 1}, x \in S}

\* the partial maps from command names to classes of one origin
ClassMaps(origin) ==
  UNION {[names -> {c \in CommandClasses : c.origin = origin}] : names \in SUBSET CmdNames}

\* settings['COMMANDS_MODULE']: '' (the default), or the name of a module with classes
ProjectCommands == <<"p", ".", "c">>
CommandsModules ==
  {[name |-> EmptyStr, classes |-> <<>>]}
    \cup [name : {ProjectCommands}, classes : ClassMaps("commands_module")]

VARIABLES
  \* --- the environment execute() runs in
  argv,               \* sys.argv, mutated by _pop_command_name
  argv0,              \* argv as execute() received it
  inproject,          \* inside_project()
  builtin,            \* the command classes of the package scrapy.commands
  entry_points,       \* the classes registered in the group 'scrapy.commands'
  commands_module,    \* settings['COMMANDS_MODULE'] and the classes of the module it names
  \* --- the locals of execute()
  pc,                 \* the line execute() is at
  cmds,               \* the dict of line 138
  cmdname,            \* the result of line 139
  opts_profile,       \* opts.profile of line 156
  args,               \* args of line 156
  exitcode,           \* cmd.exitcode
  \* --- what has been observed of the process
  trace,              \* the calls made so far, in order
  exit_status,        \* <<status>> once sys.exit(status) was called, <<>> while running
  exit_line,          \* the line whose call ended the process, 0 while running
  uncaught,           \* the exception that left execute(), None if none
  usage_errors        \* the UsageErrors raised so far, each with the function that raised it

dvars == <<argv, argv0, inproject, builtin, entry_points, commands_module, pc, cmds,
           cmdname, opts_profile, args, exitcode, trace, exit_status, exit_line, uncaught,
           usage_errors>>

VARIABLES
  \* --- the engine the command hands off to
  state,              \* EngineState
  queue,              \* the Request Queue: entries by (priority descending, sequence ascending)
  seen,               \* DedupRecord: the fingerprints marked seen
  active_count,       \* ThrottleState.active_count of each partition key
  global_count,       \* active_count of the single global key
  in_flight,          \* the requests submitted to the Worker Pool and not completed
  \* --- what has been observed of the run
  created,            \* the requests pushed by start and by the callback, by id
  dropped,            \* the ids whose push was a no-op
  dispatched,         \* the ids submitted to the Worker Pool at least once
  callbacks,          \* per id: what the processing callback was invoked with
  cancelled           \* the ids whose fetch stop() cancelled

evars == <<state, queue, seen, active_count, global_count, in_flight, created, dropped,
           dispatched, callbacks, cancelled>>

vars == <<dvars, evars>>

(***************************************************************************)
(* Python helpers.                                                         *)
(***************************************************************************)
\* arg.startswith('-')
startswith_dash(arg) == Len(arg) > 0 /\ arg[1] = "-"

\* a test for None only
Falsy_only_None(x) == x = None

\* bool(x) is False: None and the empty string
Falsy(x) == x = None \/ Len(x) = 0

\* d.update(e)
update(d, e) ==
  [k \in DOMAIN d \cup DOMAIN e |-> IF k \in DOMAIN e THEN e[k] ELSE d[k]]

\* del s[i], i counted from 1
del(s, i) == [j \in 1..(Len(s) - 1) |-> IF j < i THEN s[j] ELSE s[j + 1]]

\* argv[1:]
Tail1(s) == IF Len(s) = 0 THEN <<>> ELSE Tail(s)

(***************************************************************************)
(* Command discovery, lines 30-57.                                         *)
(***************************************************************************)
\* _get_commands_from_module: the classes of the module, filtered by the project
_get_commands_from_module(module, inproj) ==
  LET kept == {n \in DOMAIN module : inproj \/ ~module[n].requires_project}
  IN [n \in kept |-> module[n]]

\* _get_commands_from_entry_points: every registered class, whatever inproject is
_get_commands_from_entry_points(eps, inproj) ==
  [n \in DOMAIN eps |-> eps[n]]

\* _get_commands_dict
_get_commands_dict(blt, eps, cmds_module, inproj) ==
  LET c1 == _get_commands_from_module(blt, inproj)
      c2 == update(c1, _get_commands_from_entry_points(eps, inproj))
  IN IF ~Falsy(cmds_module.name)
     THEN update(c2, _get_commands_from_module(cmds_module.classes, inproj))
     ELSE c2

(***************************************************************************)
(* _pop_command_name, lines 59-66.                                         *)
(***************************************************************************)
\* the loop from position k of argv[1:] (k counted from 1); i = k - 1 is the code's counter
RECURSIVE pop_loop(_, _)
pop_loop(av, k) ==
  IF k > Len(Tail1(av)) THEN [ret |-> None, argv |-> av]
  ELSE IF ~startswith_dash(Tail1(av)[k])
       THEN \* del argv[i]: i = k - 1 counts from 0 in argv, which is element k of argv
            \* counted from 1, the element before the command name
            [ret |-> Tail1(av)[k], argv |-> del(av, k)]
       ELSE pop_loop(av, k + 1)

_pop_command_name(av) == pop_loop(av, 1)

(***************************************************************************)
(* optparse.OptionParser, as execute() uses it.                            *)
(***************************************************************************)
\* parser.parse_args(args=a) once the command has added its options: options and
\* positional arguments may be interspersed; --profile=FILE sets opts.profile; -h
\* prints the help and exits 0; an option nobody added is parser.error, which exits 2
RECURSIVE parse_loop(_, _, _, _)
parse_loop(a, k, profile, positional) ==
  IF k > Len(a) THEN [result |-> "ok", profile |-> profile, args |-> positional]
  ELSE IF a[k] = OptHelp THEN [result |-> "help", profile |-> profile, args |-> positional]
  ELSE IF a[k] = OptProfile THEN parse_loop(a, k + 1, TRUE, positional)
  ELSE IF startswith_dash(a[k])
       THEN [result |-> "error", profile |-> profile, args |-> positional]
  ELSE parse_loop(a, k + 1, profile, Append(positional, a[k]))

parse_args(a) == parse_loop(a, 1, FALSE, <<>>)

(***************************************************************************)
(* _run_print_help, lines 95-103.                                          *)
(***************************************************************************)
\* what a called function does: return, or raise UsageError(msg, print_help=...)
Returns == [raises |-> FALSE]
UsageErrors == [raises : {TRUE}, msg : {EmptyStr, <<"m">>}, print_help : BOOLEAN]
Outcomes == {Returns} \cup UsageErrors

\* an except clause without its sys.exit(2)
_run_print_help_no_exit(outcome) ==
  IF ~outcome.raises
  THEN [calls |-> <<>>, status |-> <<>>, line |-> 0, uncaught |-> None]
  ELSE IF ~Falsy(outcome.msg)
       THEN [calls |-> <<"parser.error">>, status |-> <<2>>, line |-> 100, uncaught |-> None]
       ELSE [calls |-> IF outcome.print_help THEN <<"parser.print_help">> ELSE <<>>,
             status |-> <<>>, line |-> 0, uncaught |-> None]

\* the except clause: the calls it makes, and how it leaves.  parser.error prints
\* the usage and the message and calls sys.exit(2) itself, so line 101 is not
\* reached when str(e) is not empty
_run_print_help(outcome) ==
  IF ~outcome.raises
  THEN [calls |-> <<>>, status |-> <<>>, line |-> 0, uncaught |-> None]
  ELSE IF ~Falsy(outcome.msg)
       THEN [calls |-> <<"parser.error">>, status |-> <<2>>, line |-> 100, uncaught |-> None]
       ELSE IF outcome.print_help
            THEN [calls |-> <<"parser.print_help">>, status |-> <<2>>, line |-> 103,
                  uncaught |-> None]
            ELSE [calls |-> <<>>, status |-> <<2>>, line |-> 103, uncaught |-> None]

(***************************************************************************)
(* _run_command and _run_command_profiled, lines 166-179.                  *)
(***************************************************************************)
\* _run_command without its else: a profiled run runs the command a second time
_run_command_no_else(profile, outcome) ==
  IF profile /\ ~outcome.raises
  THEN <<"cProfile.runctx", "cmd.run", "cProfile.dump_stats", "cmd.run">>
  ELSE <<"cmd.run">>

\* the calls made when cmd.run ends with `outcome`
_run_command(profile, outcome) ==
  IF profile
  THEN <<"cProfile.runctx", "cmd.run">> \o
       (IF outcome.raises THEN <<>> ELSE <<"cProfile.dump_stats">>)
  ELSE <<"cmd.run">>

(***************************************************************************)
(* execute, lines 106-164.                                                 *)
(***************************************************************************)
\* the engine as constructed, before start()
EngineIdle ==
  /\ state = "Idle"
  /\ queue = <<>>
  /\ seen = {}
  /\ active_count = [k \in Keys |-> 0]
  /\ global_count = 0
  /\ in_flight = {}
  /\ created = <<>>
  /\ dropped = {}
  /\ dispatched = {}
  /\ callbacks = [i \in Ids |-> <<>>]
  /\ cancelled = {}

Argvs == {<<ProgName>> \o s : s \in SeqsUpTo(Tokens, MaxArgs)}

DInit ==
  /\ argv \in Argvs
  /\ argv0 = argv
  /\ inproject \in BOOLEAN
  /\ builtin \in ClassMaps("builtin")
  /\ entry_points \in ClassMaps("entry_point")
  /\ commands_module \in CommandsModules
  /\ pc = "L138"
  /\ cmds = <<>>
  /\ cmdname = None
  /\ opts_profile = FALSE
  /\ args = <<>>
  /\ exitcode = 0
  /\ trace = <<>>
  /\ exit_status = <<>>
  /\ exit_line = 0
  /\ uncaught = None
  /\ usage_errors = {}
  /\ EngineIdle

env == <<argv0, inproject, builtin, entry_points, commands_module>>

\* the record of `outcome` of the call of func
raised(func, outcome) ==
  IF outcome.raises
  THEN {[func |-> func, msg |-> outcome.msg, print_help |-> outcome.print_help]}
  ELSE {}

\* sys.exit called at `line`; status is <<the status>>
sys_exit(status, line) ==
  /\ pc' = "exit"
  /\ exit_status' = status
  /\ exit_line' = line

\* line 138
GetCommands ==
  /\ pc = "L138"
  /\ cmds' = _get_commands_dict(builtin, entry_points, commands_module, inproject)
  /\ pc' = "L139"
  /\ UNCHANGED <<env, argv, cmdname, opts_profile, args, exitcode, trace, exit_status,
                 exit_line, uncaught, usage_errors>>
  /\ UNCHANGED evars

\* line 139
PopCommandName ==
  /\ pc = "L139"
  /\ cmdname' = _pop_command_name(argv).ret
  /\ argv' = _pop_command_name(argv).argv
  /\ pc' = "L142"
  /\ UNCHANGED <<env, cmds, opts_profile, args, exitcode, trace, exit_status, exit_line,
                 uncaught, usage_errors>>
  /\ UNCHANGED evars

\* lines 142-144
PrintCommands ==
  /\ pc = "L142"
  /\ Falsy(cmdname)
  /\ trace' = Append(trace, "_print_commands")
  /\ sys_exit(<<0>>, 144)
  /\ UNCHANGED <<env, argv, cmds, cmdname, opts_profile, args, exitcode, uncaught,
                 usage_errors>>
  /\ UNCHANGED evars

\* lines 145-147
UnknownCommand ==
  /\ pc = "L142"
  /\ ~Falsy(cmdname)
  /\ cmdname \notin DOMAIN cmds
  /\ trace' = Append(trace, "_print_unknown_command")
  /\ sys_exit(<<2>>, 147)
  /\ UNCHANGED <<env, argv, cmds, cmdname, opts_profile, args, exitcode, uncaught,
                 usage_errors>>
  /\ UNCHANGED evars

\* lines 149-155
SetupCommand ==
  /\ pc = "L142"
  /\ ~Falsy(cmdname)
  /\ cmdname \in DOMAIN cmds
  /\ trace' = trace \o <<"settings.setdict", "cmd.settings", "cmd.add_options">>
  /\ pc' = "L156"
  /\ UNCHANGED <<env, argv, cmds, cmdname, opts_profile, args, exitcode, exit_status,
                 exit_line, uncaught, usage_errors>>
  /\ UNCHANGED evars

\* line 156
ParseArgs ==
  /\ pc = "L156"
  /\ LET r == parse_args(Tail1(argv))
     IN /\ trace' = Append(trace, "parser.parse_args")
        /\ opts_profile' = r.profile
        /\ args' = r.args
        /\ IF r.result = "ok"
           THEN pc' = "L157" /\ UNCHANGED <<exit_status, exit_line>>
           ELSE sys_exit(IF r.result = "help" THEN <<0>> ELSE <<2>>, 156)
  /\ UNCHANGED <<env, argv, cmds, cmdname, exitcode, uncaught, usage_errors>>
  /\ UNCHANGED evars

\* line 157
ProcessOptions ==
  /\ pc = "L157"
  /\ \E outcome \in Outcomes :
       LET r == _run_print_help(outcome)
       IN /\ trace' = Append(trace, "cmd.process_options") \o r.calls
          /\ usage_errors' = usage_errors \cup raised("process_options", outcome)
          /\ uncaught' = r.uncaught
          /\ IF r.status = <<>> /\ r.uncaught = None
             THEN pc' = "L162" /\ UNCHANGED <<exit_status, exit_line>>
             ELSE sys_exit(r.status, r.line)
  /\ UNCHANGED <<env, argv, cmds, cmdname, opts_profile, args, exitcode>>
  /\ UNCHANGED evars

\* line 162
MakeCrawlerProcess ==
  /\ pc = "L162"
  /\ trace' = Append(trace, "CrawlerProcess")
  /\ pc' = "L163"
  /\ UNCHANGED <<env, argv, cmds, cmdname, opts_profile, args, exitcode, exit_status,
                 exit_line, uncaught, usage_errors>>
  /\ UNCHANGED evars

\* line 163
RunCommand ==
  /\ pc = "L163"
  /\ \E outcome \in Outcomes, code \in ExitCodes :
       LET r == _run_print_help(outcome)
       IN /\ trace' = trace \o _run_command(opts_profile, outcome) \o r.calls
          /\ usage_errors' = usage_errors \cup raised("run", outcome)
          /\ exitcode' = code
          /\ uncaught' = r.uncaught
          /\ IF r.status = <<>> /\ r.uncaught = None
             THEN pc' = "L164" /\ UNCHANGED <<exit_status, exit_line>>
             ELSE sys_exit(r.status, r.line)
  /\ UNCHANGED <<env, argv, cmds, cmdname, opts_profile, args>>
  /\ UNCHANGED evars

\* line 164
ExitWithExitcode ==
  /\ pc = "L164"
  /\ sys_exit(<<exitcode>>, 164)
  /\ UNCHANGED <<env, argv, cmds, cmdname, opts_profile, args, exitcode, trace, uncaught,
                 usage_errors>>
  /\ UNCHANGED evars

Next ==
  \/ GetCommands
  \/ PopCommandName
  \/ PrintCommands
  \/ UnknownCommand
  \/ SetupCommand
  \/ ParseArgs
  \/ ProcessOptions
  \/ MakeCrawlerProcess
  \/ RunCommand
  \/ ExitWithExitcode

Spec == DInit /\ [][Next]_vars

(***************************************************************************)
(* The engine behind the command (spec.md sections 4 and 5): Request       *)
(* Queue, Deduplication Filter, Throttle, Worker Pool and the control loop.*)
(* The control loop is the only writer of queue, filter and throttle; the  *)
(* workers report through completion events, which the loop may take at    *)
(* any moment.  A request in the engine is                                 *)
(* [id, fp, dont_filter, priority, retries].                               *)
(*                                                                         *)
(* Left out, because they only take behaviours away (they postpone a       *)
(* dispatch or a push and allow nothing new): pause/resume, drain (its end *)
(* is the end of step (b) of the loop), a per_key_delay above 0 and the    *)
(* high/low-water marks.                                                   *)
(***************************************************************************)
\* DedupFilter.seen
is_seen(sn, fp) == fp \in sn

\* DedupFilter.mark_seen: a dont_filter request is never recorded
mark_seen(sn, r) == IF r.dont_filter THEN sn ELSE sn \cup {r.fp}

\* the place of a new entry: behind every entry of at least its priority (the
\* enqueue sequence number breaks ties first in, first out)
insert_at(q, r) == Cardinality({k \in 1..Len(q) : q[k].priority >= r.priority}) + 1

\* Queue.push: a no-op when the fingerprint is already deduplicated, unless dont_filter
accepts(sn, r) == r.dont_filter \/ ~is_seen(sn, r.fp)

push(q, sn, r) ==
  IF accepts(sn, r)
  THEN LET k == insert_at(q, r)
       IN SubSeq(q, 1, k - 1) \o <<r>> \o SubSeq(q, k, Len(q))
  ELSE q

\* Throttle.try_acquire for the key and for the global key: both must pass
delay_elapsed(key) == per_key_delay = 0

\* try_acquire that compares with <= instead of <
may_acquire_off_by_one(key) ==
  /\ active_count[key] <= max_per_key_concurrency
  /\ delay_elapsed(key)
  /\ global_count <= max_global_concurrency

may_acquire(key) ==
  /\ active_count[key] < max_per_key_concurrency
  /\ delay_elapsed(key)
  /\ global_count < max_global_concurrency

\* Queue.pop_ready: the position of the first entry, in queue order, whose key is
\* eligible; 0 when no entry is eligible
pop_ready(q) ==
  LET ready == {k \in 1..Len(q) : may_acquire(partition_key(q[k].fp))}
  IN IF ready = {} THEN 0 ELSE CHOOSE k \in ready : \A j \in ready : k <= j

\* a retry that goes through the filter like any other push
retry_of_filtered(r) == [r EXCEPT !.retries = r.retries + 1]

\* the retry of a request: the same request, one more retry, dont_filter for the retry
retry_of(r) == [r EXCEPT !.retries = r.retries + 1, !.dont_filter = TRUE]

\* a Failure is retried when it is transient and max_retries is not exceeded
is_retried(r, outcome) == outcome = "transient" /\ r.retries < max_retries

\* what the callback is invoked with for a completion that is not retried: a Response,
\* or a Failure that is terminal (retries exhausted) or permanent
surfaced(outcome) ==
  CASE outcome = "success" -> "response"
    [] outcome = "transient" -> "terminal"
    [] outcome = "permanent" -> "permanent"

FetchOutcomes == {"success", "transient", "permanent"}

\* the engine request of a newly created request
as_request(new, id) ==
  [id |-> id, fp |-> new.fp, dont_filter |-> new.dont_filter, priority |-> new.priority,
   retries |-> 0]

\* pushing the requests `news` in order, the first with id `id`: the queue and the
\* ids whose push was a no-op
RECURSIVE push_all(_, _, _, _)
push_all(q, sn, news, id) ==
  IF news = <<>> THEN [queue |-> q, dropped |-> {}]
  ELSE LET r == as_request(Head(news), id)
           rest == push_all(push(q, sn, r), sn, Tail(news), id + 1)
       IN [queue |-> rest.queue,
           dropped |-> rest.dropped \cup (IF accepts(sn, r) THEN {} ELSE {id})]

\* the dispatcher while the engine runs: inside cmd.run of `scrapy crawl`
InsideRun ==
  /\ argv0 = <<ProgName, crawl>>
  /\ argv = <<crawl>>
  /\ inproject = TRUE
  /\ builtin = [n \in {crawl} |-> [origin |-> "builtin", requires_project |-> TRUE]]
  /\ entry_points = <<>>
  /\ commands_module = [name |-> EmptyStr, classes |-> <<>>]
  /\ pc = "L163"
  /\ cmds = builtin
  /\ cmdname = crawl
  /\ opts_profile = FALSE
  /\ args = <<>>
  /\ exitcode = 0
  /\ trace = <<"settings.setdict", "cmd.settings", "cmd.add_options", "parser.parse_args",
               "cmd.process_options", "CrawlerProcess">>
  /\ exit_status = <<>>
  /\ exit_line = 0
  /\ uncaught = None
  /\ usage_errors = {}

EInit == InsideRun /\ EngineIdle

throttle == <<active_count, global_count>>
observed == <<created, dropped, dispatched, callbacks, cancelled>>

\* start(seed_requests, processing_callback)
Start ==
  /\ state = "Idle"
  /\ \E seeds \in SeqsUpTo(NewRequests, MaxRequests) :
       LET r == push_all(queue, seen, seeds, 1)
       IN /\ queue' = r.queue
          /\ dropped' = r.dropped
          /\ created' = seeds
  /\ state' = "Running"
  /\ UNCHANGED <<seen, throttle, in_flight, dispatched, callbacks, cancelled>>
  /\ UNCHANGED dvars

\* stop(): forced; the fetches in flight are cancelled and no callback fires for them
Stop ==
  /\ state = "Running"
  /\ state' = "Stopped"
  /\ cancelled' = cancelled \cup {r.id : r \in in_flight}
  /\ in_flight' = {}
  /\ active_count' = [k \in Keys |-> 0]
  /\ global_count' = 0
  /\ UNCHANGED <<queue, seen, created, dropped, dispatched, callbacks>>
  /\ UNCHANGED dvars

\* main loop, steps (a) and (c): a ready entry is popped, the throttle acquired, the
\* fingerprint marked seen and the request submitted
Dispatch ==
  /\ state = "Running"
  /\ pop_ready(queue) # 0
  /\ LET k == pop_ready(queue)
         r == queue[k]
         key == partition_key(r.fp)
     IN /\ queue' = SubSeq(queue, 1, k - 1) \o SubSeq(queue, k + 1, Len(queue))
        /\ active_count' = [active_count EXCEPT ![key] = @ + 1]
        /\ global_count' = global_count + 1
        /\ seen' = mark_seen(seen, r)
        /\ in_flight' = in_flight \cup {r}
        /\ dispatched' = dispatched \cup {r.id}
  /\ UNCHANGED <<state, created, dropped, callbacks, cancelled>>
  /\ UNCHANGED dvars

\* main loop, step (b): queue empty and nothing in flight
Finish ==
  /\ state = "Running"
  /\ queue = <<>>
  /\ in_flight = {}
  /\ state' = "Stopped"
  /\ UNCHANGED <<queue, seen, throttle, in_flight, observed>>
  /\ UNCHANGED dvars

\* a completion event: the throttle is released; a transient Failure within
\* max_retries is pushed again; anything else goes to the processing callback, whose
\* requests are pushed subject to the filter
Complete ==
  /\ state = "Running"
  /\ \E r \in in_flight, outcome \in FetchOutcomes :
       /\ in_flight' = in_flight \ {r}
       /\ active_count' = [active_count EXCEPT ![partition_key(r.fp)] = @ - 1]
       /\ global_count' = global_count - 1
       /\ IF is_retried(r, outcome)
          THEN /\ queue' = push(queue, seen, retry_of(r))
               /\ UNCHANGED <<created, dropped, callbacks>>
          ELSE /\ callbacks' = [callbacks EXCEPT ![r.id] = Append(@, surfaced(outcome))]
               /\ \E news \in SeqsUpTo(NewRequests, 1) :
                    /\ Len(created) + Len(news) <= MaxRequests
                    /\ LET p == push_all(queue, seen, news, Len(created) + 1)
                       IN /\ queue' = p.queue
                          /\ dropped' = dropped \cup p.dropped
                    /\ created' = created \o news
  /\ UNCHANGED <<state, seen, dispatched, cancelled>>
  /\ UNCHANGED dvars

ENext ==
  \/ Start
  \/ Stop
  \/ Dispatch
  \/ Finish
  \/ Complete

EngineSpec == EInit /\ [][ENext]_vars

(***************************************************************************)
(* Vocabulary of the properties of the dispatcher.                         *)
(***************************************************************************)
\* argv holds an element after argv[0] that does not start with '-'
HasCommandName(av) == \E k \in 2..Len(av) : av[k] = <<>> \/ av[k][1] # "-"

\* the position in argv of the first such element
CommandNamePos(av) ==
  CHOOSE k \in 2..Len(av) :
    /\ (av[k] = <<>> \/ av[k][1] # "-")
    /\ \A j \in 2..(k - 1) : av[j] # <<>> /\ av[j][1] = "-"

\* the command name argv holds
CommandName(av) == av[CommandNamePos(av)]

\* av without its element k
Without(av, k) == SubSeq(av, 1, k - 1) \o SubSeq(av, k + 1, Len(av))

\* the steps of execute() for a command, in the order of lines 153-163
CommandSteps ==
  <<"settings.setdict", "cmd.settings", "cmd.add_options", "parser.parse_args",
    "cmd.process_options", "CrawlerProcess", "cmd.run">>

IsCommandStep(e) == \E k \in 1..Len(CommandSteps) : CommandSteps[k] = e

\* the steps made so far, in order
StepsOf(t) == SelectSeq(t, IsCommandStep)

IsPrefix(p, t) == Len(p) <= Len(t) /\ SubSeq(t, 1, Len(p)) = p

Called(e) == \E k \in 1..Len(trace) : trace[k] = e

\* argv names a command of the commands dict and no UsageError was raised
NamedCommandRan ==
  /\ pc = "exit"
  /\ HasCommandName(argv0)
  /\ CommandName(argv0) \in DOMAIN cmds
  /\ usage_errors = {}

\* C1 as stated: when argv names a command of the commands dict and neither
\* cmd.process_options nor cmd.run raises UsageError, the steps setdict, cmd.settings,
\* add_options, parse_args, process_options, CrawlerProcess, run happen each once in
\* this order and the process exits with cmd.exitcode.
C1_AsStated ==
  NamedCommandRan =>
    /\ StepsOf(trace) = CommandSteps
    /\ exit_line = 164
    /\ exit_status = <<exitcode>>

\* C1 (amended): at every moment the steps made so far are an initial part of
\* setdict, cmd.settings, add_options, parse_args, process_options, CrawlerProcess, run
\* (each at most once, in this order); and when argv names a command of the commands
\* dict, parser.parse_args returns instead of exiting (no -h, no unknown option) and
\* neither cmd.process_options nor cmd.run raises UsageError, all of them have happened
\* and the process exits with status cmd.exitcode.
C1_StepsInOrder ==
  /\ IsPrefix(StepsOf(trace), CommandSteps)
  /\ (NamedCommandRan /\ exit_line # 156) =>
       /\ StepsOf(trace) = CommandSteps
       /\ exit_line = 164
       /\ exit_status = <<exitcode>>

\* a profiled run of a named command that ends with exit code 1
C1_Witness ==
  /\ NamedCommandRan
  /\ exit_line = 164
  /\ exit_status = <<1>>
  /\ opts_profile
  /\ Called("cProfile.dump_stats")

\* C2 as stated: with no command name in argv the listing is printed and the status is
\* 0; with a command name that is no key of the commands dict the status is 2; in both
\* cases no add_options, process_options, run or CrawlerProcess.
C2_AsStated ==
  pc = "exit" =>
    /\ ~HasCommandName(argv0) => trace = <<"_print_commands">> /\ exit_status = <<0>>
    /\ (HasCommandName(argv0) /\ CommandName(argv0) \notin DOMAIN cmds) =>
         /\ exit_status = <<2>>
         /\ StepsOf(trace) = <<>>

\* C2 (amended): with no command name in argv, or with the empty string as command
\* name, the listing is printed and the status is 0; with a non-empty command name that
\* is no key of the commands dict the status is 2; in both cases no add_options,
\* process_options, run or CrawlerProcess.
C2_NoCommand ==
  pc = "exit" =>
    /\ (~HasCommandName(argv0) \/ CommandName(argv0) = <<>>) =>
         trace = <<"_print_commands">> /\ exit_status = <<0>>
    /\ (/\ HasCommandName(argv0)
        /\ CommandName(argv0) # <<>>
        /\ CommandName(argv0) \notin DOMAIN cmds) =>
         trace = <<"_print_unknown_command">> /\ exit_status = <<2>>

\* an unknown command after an option, with other commands available
C2_Witness ==
  /\ pc = "exit"
  /\ exit_line = 147
  /\ Len(argv0) = 3
  /\ argv0[2] = OptProfile
  /\ DOMAIN cmds # {}

\* C3: a UsageError of cmd.process_options ends the process with status 2, without a
\* CrawlerProcess and without cmd.run; a UsageError of cmd.run ends it with status 2
\* and not through sys.exit(cmd.exitcode); no UsageError leaves execute().
C3_UsageErrorExits ==
  /\ uncaught = None
  /\ \A e \in usage_errors :
       /\ pc = "exit"
       /\ exit_status = <<2>>
       /\ exit_line # 164
       /\ e.func = "process_options" => ~Called("CrawlerProcess") /\ ~Called("cmd.run")

\* cmd.run left exit code 0 and raised a UsageError with no message and no help
C3_Witness ==
  /\ pc = "exit"
  /\ exitcode = 0
  /\ \E e \in usage_errors : e.func = "run" /\ e.msg = <<>> /\ ~e.print_help

\* C4 as stated: outside a project the commands dict holds no command that requires
\* a project.
C4_AsStated ==
  (pc # "L138" /\ ~inproject) => \A n \in DOMAIN cmds : ~cmds[n].requires_project

\* C8 as stated: a UsageError with print_help set, whatever its message, has
\* parser.print_help() called before the process exits with status 2.
C8_AsStated ==
  \A e \in usage_errors :
    e.print_help => Called("parser.print_help") /\ exit_status = <<2>>

\* C9 as stated: _pop_command_name returns the first element after argv[0] that does
\* not start with '-', or None and argv unchanged; when it returns a name, exactly that
\* element is gone from argv.
C9_AsStated ==
  pc \notin {"L138", "L139"} =>
    IF HasCommandName(argv0)
    THEN /\ cmdname = CommandName(argv0)
         /\ argv = Without(argv0, CommandNamePos(argv0))
    ELSE cmdname = None /\ argv = argv0

(***************************************************************************)
(* Vocabulary of the properties of the engine.                             *)
(***************************************************************************)
Queued == {queue[k] : k \in 1..Len(queue)}

InQueue(id) == \E r \in Queued : r.id = id
InFlight(id) == \E r \in in_flight : r.id = id
Created == 1..Len(created)

\* the requests pushed without dont_filter
Filtered == {id \in Created : ~created[id].dont_filter}

\* the number of conditions of the list that hold
Count(conditions) == Cardinality({k \in 1..Len(conditions) : conditions[k]})

\* C5 as stated: of two requests with equal fingerprint pushed without dont_filter at
\* most one is ever dispatched (the second push is a no-op), and no two of them are in
\* flight at the same time.
C5_AsStated ==
  \A i, j \in Filtered :
    (i < j /\ created[i].fp = created[j].fp) =>
      /\ ~(i \in dispatched /\ j \in dispatched)
      /\ ~(InFlight(i) /\ InFlight(j))

\* C6: for each partition key the slots acquired and not released are at most
\* max_per_key_concurrency, the slots of the global key at most max_global_concurrency,
\* and the slots are the requests in flight.
C6_Throttle ==
  /\ \A key \in Keys :
       /\ active_count[key] <= max_per_key_concurrency
       /\ active_count[key] = Cardinality({r \in in_flight : partition_key(r.fp) = key})
  /\ global_count <= max_global_concurrency
  /\ global_count = Cardinality(in_flight)

\* the global key is full, and a retried request waits for its own key, which is full
C6_Witness ==
  /\ global_count = max_global_concurrency
  /\ \E r \in Queued :
       /\ r.retries > 0
       /\ active_count[partition_key(r.fp)] = max_per_key_concurrency

====
